---- MODULE Spec2Model ----
(***************************************************************************)
(* PiHal: the Raspberry Pi hardware abstraction layer of RadioLib          *)
(* (examples/NonArduino/Raspberry/PiHal.h), an adapter from the RadioLibHal *)
(* interface to the pigpio library, and pigpioAlertHandler, the function    *)
(* that emulates interrupts on top of pigpio alerts.                        *)
(*                                                                         *)
(* The adapter's state is the three interrupt arrays and the SPI handle.   *)
(* The pigpio library is the environment: the model keeps the part of its  *)
(* state the adapter's calls determine (the alert registry, the open SPI   *)
(* handles, the level last written to the enable pin) and records, for     *)
(* every operation, the library calls it issued.                           *)
(***************************************************************************)
EXTENDS Integers, Sequences, FiniteSets, TLC

\* ----------------------------------------------------------------- sizes

\* uint32_t is modelled WordBits wide (TLC's integers are 32-bit signed).
WordBits == 6
\* Polls of the pin one pulseIn call may make.
MaxPolls == 2
\* Microseconds the tick counter may advance between two reads of it.
MaxStep == 2
\* attachInterrupt and detachInterrupt calls of one run of SpecRace.
MaxRaceCalls == 3

Word == 2 ^ WordBits

\* ------------------------------------------------------------- constants

\* RadioLib: RADIOLIB_NC is (0xFFFFFFFF), the all-ones uint32_t.
RADIOLIB_NC == Word - 1
\* pigpio.h: user GPIO are 0..31.
PI_MAX_USER_GPIO == 31
\* pigpio.h: gpioSetMode modes.
PI_INPUT == 0
PI_OUTPUT == 1
\* pigpio.h: levels; an alert's level is 0 (change to low), 1 (change to
\* high) or PI_TIMEOUT (no change, a watchdog timeout).
PI_LOW == 0
PI_HIGH == 1
PI_TIMEOUT == 2
\* pigpio.h: edges.
RISING_EDGE == 0
FALLING_EDGE == 1
\* Mutant: the HAL's rising edge is the library's RISING_EDGE.
PI_RISING_Unswapped == RISING_EDGE

\* PiHal.h, lines 12-13: the HAL's edge values are the library's, swapped.
PI_RISING == FALLING_EDGE
PI_FALLING == RISING_EDGE
\* The pin of the radio's enable line.
ENABLE_PIN == 18
\* pigpio.h error codes.
PI_NOT_INITIALISED == -31
PI_SPI_OPEN_FAILED == -73
NULL == "NULL"

Pins == 0 .. PI_MAX_USER_GPIO
\* The user GPIO the model exercises: the two ends of the arrays.
UsedPins == {0, PI_MAX_USER_GPIO}
\* uint32_t pin arguments: valid ones, the first invalid one, the sentinel.
PinArgs == UsedPins \cup {PI_MAX_USER_GPIO + 1, RADIOLIB_NC}
\* int event arguments of the alert handler.
EventArgs == UsedPins \cup {-1, PI_MAX_USER_GPIO + 1}
Levels == {PI_LOW, PI_HIGH, PI_TIMEOUT}
\* The mode arguments RadioLib passes: the HAL's GpioInterruptRising and
\* GpioInterruptFalling (line 26).
ModeArgs == {PI_RISING, PI_FALLING}
\* Callback pointers: NULL and the addresses of two functions.
Callbacks == {NULL, "isrA", "isrB"}
\* The userdata pointer of an alert: NULL or the PiHal instance (line 92).
UserData == {NULL, "this"}

\* RadioLibTime_t is unsigned long: as wide as uint32_t on a 32-bit build,
\* twice as wide on a 64-bit one. The build's value is 2^width.
TimeWords == {Word, Word * Word}

\* Conversion of an int to uint32_t (the usual arithmetic conversion of
\* line 188, where a uint32_t is compared with an int).
ToU32(x) == x % Word

VARIABLES
  interruptEnabled,    \* bool     interruptEnabled[PI_MAX_USER_GPIO + 1]
  interruptModes,      \* uint32_t interruptModes[PI_MAX_USER_GPIO + 1]
  interruptCallbacks,  \* RadioLibISR interruptCallbacks[PI_MAX_USER_GPIO + 1]
  spiHandle,           \* int _spiHandle
  alertFunc,           \* pigpio: the GPIO whose alert function is pigpioAlertHandler
  libInitialised,      \* pigpio: gpioInitialise succeeded and gpioTerminate has not run
  openHandles,         \* pigpio: the SPI handles open
  enableLevel,         \* pigpio: the level last written to ENABLE_PIN (-1: none yet)
  timeWord,            \* the build: 2^(width of unsigned long)
  last,                \* the last operation: its arguments, library calls, result
  pulse,               \* history: the timing of the last pulseIn
  lastReg,             \* history: per pin, the last attach/detach
  hist,                \* history: "init"/"term" while only init and term alternate
  mainThread,          \* SpecRace: the attach/detach in progress and its next line
  alertThread,         \* SpecRace: the alert handler in progress and its next line
  regs,                \* SpecRace history: the <<pin, callback, mode>> attached so far
  raceCalls            \* SpecRace history: the attach and detach calls made so far

adapterVars == <<interruptEnabled, interruptModes, interruptCallbacks, spiHandle>>
arrayVars == <<interruptEnabled, interruptModes, interruptCallbacks>>
libVars == <<alertFunc, libInitialised, openHandles, enableLevel, timeWord>>
histVars == <<lastReg, pulse>>
vars == <<interruptEnabled, interruptModes, interruptCallbacks, spiHandle,
          alertFunc, libInitialised, openHandles, enableLevel, timeWord,
          last, pulse, lastReg, hist, mainThread, alertThread, regs, raceCalls>>
raceVars == <<mainThread, alertThread, regs, raceCalls>>

\* A library call: the function and (up to) two integer arguments.
Call(fn, a, b) == [fn |-> fn, a |-> a, b |-> b]

\* The record of an operation.
Op(op, pin, arg, ud, calls, ret, invoked, idx) ==
  [op |-> op, pin |-> pin, arg |-> arg, ud |-> ud, calls |-> calls,
   ret |-> ret, invoked |-> invoked, idx |-> idx]

NoReg == [kind |-> "none", cb |-> NULL, mode |-> 0]

\* The two threads of SpecRace at rest.
MainIdle == [pc |-> "idle", pin |-> 0, cb |-> NULL, mode |-> 0]
AlertIdle == [pc |-> "idle", event |-> 0, level |-> 0, mode |-> 0,
              tested |-> NULL, called |-> "none"]

\* ------------------------------------------------------------------ GPIO

\* Mutant: the sentinel-pin check left out.
NotConnected_Never(pin) == FALSE

\* Lines 58, 66, 74, 126: the sentinel-pin check.
NotConnected(pin) == pin = RADIOLIB_NC

\* Lines 57-63.
pinMode(pin, mode) ==
  /\ last' = Op("pinMode", pin, mode, NULL,
                IF NotConnected(pin) THEN <<>> ELSE <<Call("gpioSetMode", pin, mode)>>,
                0, <<>>, {})
  /\ UNCHANGED <<adapterVars, libVars, histVars>>
  /\ UNCHANGED raceVars
  /\ hist' = "other"

\* Lines 65-71.
digitalWrite(pin, value) ==
  /\ last' = Op("digitalWrite", pin, value, NULL,
                IF NotConnected(pin) THEN <<>> ELSE <<Call("gpioWrite", pin, value)>>,
                0, <<>>, {})
  /\ enableLevel' = IF ~NotConnected(pin) /\ pin = ENABLE_PIN THEN value ELSE enableLevel
  /\ UNCHANGED <<adapterVars, alertFunc, libInitialised, openHandles, timeWord, histVars>>
  /\ UNCHANGED raceVars
  /\ hist' = "other"

\* Lines 73-79; level is what gpioRead returns.
digitalRead(pin, level) ==
  /\ last' = IF NotConnected(pin)
             THEN Op("digitalRead", pin, 0, NULL, <<>>, 0, <<>>, {})
             ELSE Op("digitalRead", pin, 0, NULL, <<Call("gpioRead", pin, 0)>>,
                     level, <<>>, {})
  /\ UNCHANGED <<adapterVars, libVars, histVars>>
  /\ UNCHANGED raceVars
  /\ hist' = "other"

\* ---------------------------------------------------------------- pulseIn

NoPulse == [timeout |-> 0, timedOut |-> FALSE, elapsed |-> 0]

\* Unsigned subtraction in RadioLibTime_t (lines 135, 140): micros() is a
\* RadioLibTime_t, start and curtick are uint32_t converted to it.
TimeSub(now, then, tw) == (now - then) % tw

\* Conversion of a RadioLibTime_t to long, the return type (lines 125, 140).
ToLong(x, tw) == IF 2 * x >= tw THEN x - tw ELSE x

\* Line 134: the loop's condition, for the level digitalRead returned.
PulseHolds(level, state) == level = state

\* Line 135: the timeout check, for the tick micros() returned.
PulseTimedOut(now, curtick, timeout, tw) == TimeSub(now, curtick, tw) > timeout

\* Line 140: the result, for the tick micros() returned.
PulseResult(now, start, tw) == ToLong(TimeSub(now, start, tw), tw)

\* Lines 134-140 on the levels and ticks the library returns, in order: one
\* level and one tick per poll. polls is 0 when they run out before the loop ends.
RECURSIVE PulseLoop(_, _, _, _, _, _, _)
PulseLoop(state, timeout, start, curtick, levels, ticks, tw) ==
  IF levels = <<>>
  THEN [polls |-> 0, ret |-> 0, timedOut |-> FALSE]
  ELSE IF PulseHolds(Head(levels), state)
       THEN IF PulseTimedOut(Head(ticks), curtick, timeout, tw)
            THEN [polls |-> 1, ret |-> 0, timedOut |-> TRUE]
            ELSE LET r == PulseLoop(state, timeout, start, curtick,
                                    Tail(levels), Tail(ticks), tw)
                 IN IF r.polls = 0 THEN r ELSE [r EXCEPT !.polls = @ + 1]
       ELSE [polls |-> 1, ret |-> PulseResult(Head(ticks), start, tw), timedOut |-> FALSE]

\* The sum of the first k elements of ds.
RECURSIVE SumTo(_, _)
SumTo(ds, k) == IF k = 0 THEN 0 ELSE ds[k] + SumTo(ds, k - 1)

\* pigpio: gpioTick is a uint32_t count of microseconds that wraps around.
\* The tick k reads after the one that returned t0, ds[i] microseconds
\* passing between read i-1 and read i.
TickAt(t0, ds, k) == (t0 + SumTo(ds, k)) % Word

\* The library calls of a pulseIn that polls n times (lines 130-140).
PulseCalls(pin, n) ==
  <<Call("gpioSetMode", pin, PI_INPUT), Call("gpioTick", 0, 0), Call("gpioTick", 0, 0)>>
    \o [i \in 1 .. 2 * n |->
          IF i % 2 = 1 THEN Call("gpioRead", pin, 0) ELSE Call("gpioTick", 0, 0)]

\* Lines 125-141. t0 is the tick at line 131; ds[1] microseconds pass until
\* line 132 and ds[i+1] until the tick read of poll i; levels[i] is what
\* poll i reads from the pin. The call returns with poll Len(levels).
pulseIn(pin, state, timeout, t0, levels, ds) ==
  IF NotConnected(pin)
  THEN /\ last' = Op("pulseIn", pin, state, NULL, <<>>, 0, <<>>, {})
       /\ pulse' = NoPulse
       /\ UNCHANGED <<adapterVars, libVars, lastReg>>
       /\ UNCHANGED raceVars
       /\ hist' = "other"
  ELSE LET n == Len(levels)
           ticks == [i \in 1 .. n |-> TickAt(t0, ds, i + 1)]
           r == PulseLoop(state, timeout, t0, TickAt(t0, ds, 1), levels, ticks, timeWord)
       IN /\ r.polls = n
          /\ last' = Op("pulseIn", pin, state, NULL, PulseCalls(pin, n), r.ret, <<>>, {})
          /\ pulse' = [timeout |-> timeout, timedOut |-> r.timedOut,
                       elapsed |-> SumTo(ds, n + 1)]
          /\ UNCHANGED <<adapterVars, libVars, lastReg>>
          /\ UNCHANGED raceVars
          /\ hist' = "other"

\* ------------------------------------------------------------ interrupts

\* Mutant: the range check left out of the guard.
InterruptGuard_NoRange(interruptNum) == interruptNum = RADIOLIB_NC

\* Lines 82, 96: the guard of attachInterrupt and detachInterrupt.
InterruptGuard(interruptNum) ==
  (interruptNum = RADIOLIB_NC) \/ (interruptNum > PI_MAX_USER_GPIO)

\* Mutant: detachInterrupt leaves the interrupt enabled.
DetachEntry_StillEnabled == [enabled |-> TRUE, mode |-> 0, cb |-> NULL]

\* Lines 87-89: what attachInterrupt stores in the element.
AttachEntry(interruptCb, mode) == [enabled |-> TRUE, mode |-> mode, cb |-> interruptCb]
\* Lines 101-103: what detachInterrupt stores in the element.
DetachEntry == [enabled |-> FALSE, mode |-> 0, cb |-> NULL]

\* Lines 81-93.
attachInterrupt(interruptNum, interruptCb, mode) ==
  IF InterruptGuard(interruptNum)
  THEN /\ last' = Op("attachInterrupt", interruptNum, mode, NULL, <<>>, 0, <<>>, {})
       /\ UNCHANGED <<adapterVars, libVars, histVars>>
       /\ UNCHANGED raceVars
       /\ hist' = "other"
  ELSE /\ interruptEnabled' =
            [interruptEnabled EXCEPT ![interruptNum] = AttachEntry(interruptCb, mode).enabled]
       /\ interruptModes' =
            [interruptModes EXCEPT ![interruptNum] = AttachEntry(interruptCb, mode).mode]
       /\ interruptCallbacks' =
            [interruptCallbacks EXCEPT ![interruptNum] = AttachEntry(interruptCb, mode).cb]
       /\ alertFunc' = alertFunc \cup {interruptNum}
       /\ last' = Op("attachInterrupt", interruptNum, mode, NULL,
                     <<Call("gpioSetAlertFuncEx", interruptNum, 1)>>, 0, <<>>,
                     {interruptNum})
       /\ lastReg' = [lastReg EXCEPT ![interruptNum] =
                        [kind |-> "attach", cb |-> interruptCb, mode |-> mode]]
       /\ UNCHANGED <<spiHandle, libInitialised, openHandles, enableLevel, timeWord, pulse>>
       /\ UNCHANGED raceVars
       /\ hist' = "other"

\* Lines 95-107.
detachInterrupt(interruptNum) ==
  IF InterruptGuard(interruptNum)
  THEN /\ last' = Op("detachInterrupt", interruptNum, 0, NULL, <<>>, 0, <<>>, {})
       /\ UNCHANGED <<adapterVars, libVars, histVars>>
       /\ UNCHANGED raceVars
       /\ hist' = "other"
  ELSE /\ interruptEnabled' = [interruptEnabled EXCEPT ![interruptNum] = DetachEntry.enabled]
       /\ interruptModes' = [interruptModes EXCEPT ![interruptNum] = DetachEntry.mode]
       /\ interruptCallbacks' = [interruptCallbacks EXCEPT ![interruptNum] = DetachEntry.cb]
       /\ alertFunc' = alertFunc \ {interruptNum}
       /\ last' = Op("detachInterrupt", interruptNum, 0, NULL,
                     <<Call("gpioSetAlertFuncEx", interruptNum, 0)>>, 0, <<>>,
                     {interruptNum})
       /\ lastReg' = [lastReg EXCEPT ![interruptNum] =
                        [kind |-> "detach", cb |-> NULL, mode |-> 0]]
       /\ UNCHANGED <<spiHandle, libInitialised, openHandles, enableLevel, timeWord, pulse>>
       /\ UNCHANGED raceVars
       /\ hist' = "other"

\* Line 179: the guard of the alert handler.
HandlerGuard(event, userdata) ==
  (event > PI_MAX_USER_GPIO) \/ (userdata = NULL)

\* Lines 187-189: the interrupt is enabled, the level matches, a callback exists.
DispatchCond(enabled, mode, level, callback) ==
  enabled /\ (mode = ToU32(level)) /\ (callback # NULL)

\* What hal->interruptEnabled[i] reads: the element, or, with i outside the
\* array, whatever the bytes there hold.
ReadEnabled(i) == IF i \in Pins THEN {interruptEnabled[i]} ELSE BOOLEAN
ReadModes(i) == IF i \in Pins THEN {interruptModes[i]} ELSE ModeArgs
ReadCallbacks(i) == IF i \in Pins THEN {interruptCallbacks[i]} ELSE Callbacks

\* Lines 178-192, run to completion (no attach or detach in between, so the
\* two reads of interruptCallbacks[event] give one value).
Handler(op, event, level, userdata) ==
  /\ IF HandlerGuard(event, userdata)
     THEN last' = Op(op, event, level, userdata, <<>>, 0, <<>>, {})
     ELSE \E en \in ReadEnabled(event), md \in ReadModes(event),
             cb \in ReadCallbacks(event) :
            last' = Op(op, event, level, userdata, <<>>, 0,
                       IF DispatchCond(en, md, level, cb) THEN <<cb>> ELSE <<>>,
                       {event})
  /\ UNCHANGED <<adapterVars, libVars, histVars>>
  /\ UNCHANGED raceVars
  /\ hist' = "other"

\* pigpio delivers an alert: it calls the function registered for the GPIO
\* with the user data registered with it (line 92).
gpioAlert(gpio, level) ==
  /\ gpio \in alertFunc
  /\ Handler("gpioAlert", gpio, level, "this")

\* pigpioAlertHandler called with arbitrary arguments.
pigpioAlertHandler(event, level, userdata) ==
  Handler("pigpioAlertHandler", event, level, userdata)

\* ------------------------------------------------------------------- SPI

\* Mutant: spiBegin opens a session whatever the handle holds.
SpiBeginGuard_Always == TRUE

\* Line 144.
SpiBeginGuard == spiHandle < 0
\* Line 158.
SpiEndGuard == spiHandle >= 0

\* pigpio: what spiOpen may return: the lowest free handle, or an error.
SpiOpenResults ==
  IF libInitialised
  THEN {CHOOSE h \in 0 .. Cardinality(openHandles) : h \notin openHandles,
        PI_SPI_OPEN_FAILED}
  ELSE {PI_NOT_INITIALISED}

\* Lines 143-147: the calls spiBegin issues and its effect, for the value h
\* that spiOpen returns.
SpiBeginCalls == IF SpiBeginGuard THEN <<Call("spiOpen", 0, 0)>> ELSE <<>>
SpiBeginEffect(h) ==
  /\ spiHandle' = IF SpiBeginGuard THEN h ELSE spiHandle
  /\ openHandles' = IF SpiBeginGuard /\ h >= 0 THEN openHandles \cup {h} ELSE openHandles

\* Lines 157-162.
SpiEndCalls == IF SpiEndGuard THEN <<Call("spiClose", spiHandle, 0)>> ELSE <<>>
SpiEndEffect ==
  /\ spiHandle' = IF SpiEndGuard THEN -1 ELSE spiHandle
  /\ openHandles' = IF SpiEndGuard THEN openHandles \ {spiHandle} ELSE openHandles

spiBegin ==
  \E h \in SpiOpenResults :
    /\ SpiBeginEffect(h)
    /\ last' = Op("spiBegin", 0, 0, NULL, SpiBeginCalls, h, <<>>, {})
    /\ UNCHANGED <<arrayVars, alertFunc, libInitialised, enableLevel, timeWord, histVars>>
    /\ UNCHANGED raceVars
    /\ hist' = "other"

spiEnd ==
  /\ SpiEndEffect
  /\ last' = Op("spiEnd", 0, 0, NULL, SpiEndCalls, 0, <<>>, {})
  /\ UNCHANGED <<arrayVars, alertFunc, libInitialised, enableLevel, timeWord, histVars>>
  /\ UNCHANGED raceVars
  /\ hist' = "other"

\* Lines 151-153.
spiTransfer ==
  /\ last' = Op("spiTransfer", 0, 0, NULL, <<Call("spiXfer", spiHandle, 0)>>, 0, <<>>, {})
  /\ UNCHANGED <<adapterVars, libVars, histVars>>
  /\ UNCHANGED raceVars
  /\ hist' = "other"

\* ------------------------------------------------------------- init, term

\* Mutant: init drives the enable pin before it initialises the library.
InitCalls_EnableFirst(spiCalls) ==
  <<Call("gpioSetMode", ENABLE_PIN, PI_OUTPUT), Call("gpioWrite", ENABLE_PIN, PI_HIGH),
    Call("gpioInitialise", 0, 0)>> \o spiCalls

\* Lines 31-41: the library calls of init, around those of spiBegin.
InitCalls(spiCalls) ==
  <<Call("gpioInitialise", 0, 0)>> \o spiCalls
    \o <<Call("gpioSetMode", ENABLE_PIN, PI_OUTPUT), Call("gpioWrite", ENABLE_PIN, PI_HIGH)>>

\* Lines 43-53: the library calls of term, around those of spiEnd.
TermCalls(spiCalls) ==
  spiCalls
    \o <<Call("gpioSetMode", ENABLE_PIN, PI_OUTPUT), Call("gpioWrite", ENABLE_PIN, PI_LOW),
         Call("gpioTerminate", 0, 0)>>

\* The level the last gpioWrite to ENABLE_PIN among the calls passed.
LastEnableWrite(calls, before) ==
  LET ws == {i \in 1 .. Len(calls) : calls[i].fn = "gpioWrite" /\ calls[i].a = ENABLE_PIN}
  IN IF ws = {} THEN before
     ELSE calls[CHOOSE i \in ws : \A j \in ws : j <= i].b

\* init(); ok is whether gpioInitialise succeeds.
init ==
  \E ok \in BOOLEAN :
    LET inited == libInitialised \/ ok
        results == IF inited
                   THEN {CHOOSE h \in 0 .. Cardinality(openHandles) : h \notin openHandles,
                         PI_SPI_OPEN_FAILED}
                   ELSE {PI_NOT_INITIALISED}
    IN \E h \in results :
         /\ libInitialised' = inited
         /\ SpiBeginEffect(h)
         /\ last' = Op("init", 0, 0, NULL, InitCalls(SpiBeginCalls), h, <<>>, {})
         /\ enableLevel' = LastEnableWrite(InitCalls(SpiBeginCalls), enableLevel)
         /\ UNCHANGED <<arrayVars, alertFunc, timeWord, histVars>>
         /\ UNCHANGED raceVars
         /\ hist' = IF hist \in {"none", "term"} THEN "init" ELSE "other"

term ==
  /\ SpiEndEffect
  /\ libInitialised' = FALSE
  /\ last' = Op("term", 0, 0, NULL, TermCalls(SpiEndCalls), 0, <<>>, {})
  /\ enableLevel' = LastEnableWrite(TermCalls(SpiEndCalls), enableLevel)
  /\ UNCHANGED <<arrayVars, alertFunc, timeWord, histVars>>
  /\ UNCHANGED raceVars
  /\ hist' = IF hist \in {"none", "init"} THEN "term" ELSE "other"

\* ------------------------------------------------------------------ Spec

\* The object after construction (lines 25-29, 174): _spiHandle is -1; the
\* constructor initialises none of the three arrays, so an object that is
\* not in static storage holds whatever its memory held.
InitWith(dirty, builds) ==
  /\ \E en \in [dirty -> BOOLEAN], md \in [dirty -> ModeArgs],
        cb \in [dirty -> Callbacks] :
       /\ interruptEnabled = [p \in Pins |-> IF p \in dirty THEN en[p] ELSE FALSE]
       /\ interruptModes = [p \in Pins |-> IF p \in dirty THEN md[p] ELSE 0]
       /\ interruptCallbacks = [p \in Pins |-> IF p \in dirty THEN cb[p] ELSE NULL]
  /\ spiHandle = -1
  /\ alertFunc = {}
  /\ libInitialised = FALSE
  /\ openHandles = {}
  /\ enableLevel = -1
  /\ timeWord \in builds
  /\ last = Op("new", 0, 0, NULL, <<>>, 0, <<>>, {})
  /\ pulse = NoPulse
  /\ lastReg = [p \in UsedPins |-> NoReg]
  /\ hist = "none"
  /\ mainThread = MainIdle
  /\ alertThread = AlertIdle
  /\ regs = {}
  /\ raceCalls = 0

\* An object on the heap or the stack: the elements the model exercises hold
\* any value. (A 32-bit build: Spec does not exercise the arithmetic of time.)
Init == InitWith(UsedPins, {Word})

\* An object in static storage: the arrays are zero-initialised. Either build.
InitStatic == InitWith({}, TimeWords)

Next ==
  \/ \E pin \in PinArgs, mode \in {PI_INPUT, PI_OUTPUT} : pinMode(pin, mode)
  \/ \E pin \in PinArgs, value \in {PI_LOW, PI_HIGH} : digitalWrite(pin, value)
  \/ \E pin \in PinArgs, level \in {PI_LOW, PI_HIGH} : digitalRead(pin, level)
  \/ \E n \in PinArgs, cb \in Callbacks, mode \in ModeArgs : attachInterrupt(n, cb, mode)
  \/ \E n \in PinArgs : detachInterrupt(n)
  \/ \E pin \in PinArgs, state \in {PI_LOW, PI_HIGH}, level \in {PI_LOW, PI_HIGH} :
       pulseIn(pin, state, 0, 0, <<level>>, <<1, 1>>)
  \/ \E gpio \in alertFunc, level \in Levels : gpioAlert(gpio, level)
  \/ \E event \in EventArgs, level \in Levels, ud \in UserData :
       pigpioAlertHandler(event, level, ud)

Spec == Init /\ [][Next]_vars

NextSpi ==
  \/ init
  \/ term
  \/ spiBegin
  \/ spiEnd
  \/ spiTransfer
  \/ \E value \in {PI_LOW, PI_HIGH} : digitalWrite(ENABLE_PIN, value)
  \/ \E mode \in {PI_INPUT, PI_OUTPUT} : pinMode(ENABLE_PIN, mode)

SpecSpi == InitStatic /\ [][NextSpi]_vars

\* pulseIn alone, on a connected pin, with the tick counter near its wrap.
NextPulse ==
  \E state \in {PI_LOW, PI_HIGH}, timeout \in {0, 1, MaxStep * (MaxPolls + 1)},
     t0 \in {0, Word - MaxStep, Word - 1}, n \in 1 .. MaxPolls :
    \E levels \in [1 .. n -> {PI_LOW, PI_HIGH}], ds \in [1 .. n + 1 -> 0 .. MaxStep] :
      pulseIn(0, state, timeout, t0, levels, ds)

SpecPulse == InitStatic /\ [][NextPulse]_vars

\* ------------------------------------------------------------------ race

\* attachInterrupt and detachInterrupt run on the caller's thread, the alert
\* handler on pigpio's alert thread; nothing orders the two (no lock, no
\* atomic). SpecRace runs both one array access at a time.

staticVars == <<spiHandle, libInitialised, openHandles, enableLevel, timeWord,
                last, pulse, lastReg, hist>>
raceHist == <<regs, raceCalls>>

\* Line 81-82: attachInterrupt is called and passes its guard.
attachEnter(interruptNum, interruptCb, mode) ==
  /\ mainThread.pc = "idle"
  /\ raceCalls < MaxRaceCalls
  /\ ~InterruptGuard(interruptNum)
  /\ mainThread' = [pc |-> "87", pin |-> interruptNum, cb |-> interruptCb, mode |-> mode]
  /\ regs' = regs \cup {<<interruptNum, interruptCb, mode>>}
  /\ raceCalls' = raceCalls + 1
  /\ UNCHANGED <<arrayVars, alertFunc, alertThread, staticVars>>

\* Line 87.
attach87 ==
  /\ mainThread.pc = "87"
  /\ interruptEnabled' = [interruptEnabled EXCEPT ![mainThread.pin] =
                            AttachEntry(mainThread.cb, mainThread.mode).enabled]
  /\ mainThread' = [mainThread EXCEPT !.pc = "88"]
  /\ UNCHANGED <<interruptModes, interruptCallbacks, alertFunc, alertThread, raceHist, staticVars>>

\* Line 88.
attach88 ==
  /\ mainThread.pc = "88"
  /\ interruptModes' = [interruptModes EXCEPT ![mainThread.pin] =
                          AttachEntry(mainThread.cb, mainThread.mode).mode]
  /\ mainThread' = [mainThread EXCEPT !.pc = "89"]
  /\ UNCHANGED <<interruptEnabled, interruptCallbacks, alertFunc, alertThread, raceHist, staticVars>>

\* Line 89.
attach89 ==
  /\ mainThread.pc = "89"
  /\ interruptCallbacks' = [interruptCallbacks EXCEPT ![mainThread.pin] =
                              AttachEntry(mainThread.cb, mainThread.mode).cb]
  /\ mainThread' = [mainThread EXCEPT !.pc = "92"]
  /\ UNCHANGED <<interruptEnabled, interruptModes, alertFunc, alertThread, raceHist, staticVars>>

\* Line 92: gpioSetAlertFuncEx registers the handler; attachInterrupt returns.
attach92 ==
  /\ mainThread.pc = "92"
  /\ alertFunc' = alertFunc \cup {mainThread.pin}
  /\ mainThread' = MainIdle
  /\ UNCHANGED <<arrayVars, alertThread, raceHist, staticVars>>

\* Line 95-96: detachInterrupt is called and passes its guard.
detachEnter(interruptNum) ==
  /\ mainThread.pc = "idle"
  /\ raceCalls < MaxRaceCalls
  /\ ~InterruptGuard(interruptNum)
  /\ mainThread' = [pc |-> "101", pin |-> interruptNum, cb |-> NULL, mode |-> 0]
  /\ raceCalls' = raceCalls + 1
  /\ UNCHANGED <<arrayVars, alertFunc, alertThread, regs, staticVars>>

\* Line 101.
detach101 ==
  /\ mainThread.pc = "101"
  /\ interruptEnabled' = [interruptEnabled EXCEPT ![mainThread.pin] = DetachEntry.enabled]
  /\ mainThread' = [mainThread EXCEPT !.pc = "102"]
  /\ UNCHANGED <<interruptModes, interruptCallbacks, alertFunc, alertThread, raceHist, staticVars>>

\* Line 102.
detach102 ==
  /\ mainThread.pc = "102"
  /\ interruptModes' = [interruptModes EXCEPT ![mainThread.pin] = DetachEntry.mode]
  /\ mainThread' = [mainThread EXCEPT !.pc = "103"]
  /\ UNCHANGED <<interruptEnabled, interruptCallbacks, alertFunc, alertThread, raceHist, staticVars>>

\* Line 103.
detach103 ==
  /\ mainThread.pc = "103"
  /\ interruptCallbacks' = [interruptCallbacks EXCEPT ![mainThread.pin] = DetachEntry.cb]
  /\ mainThread' = [mainThread EXCEPT !.pc = "106"]
  /\ UNCHANGED <<interruptEnabled, interruptModes, alertFunc, alertThread, raceHist, staticVars>>

\* Line 106: gpioSetAlertFuncEx unregisters the handler; detachInterrupt returns.
detach106 ==
  /\ mainThread.pc = "106"
  /\ alertFunc' = alertFunc \ {mainThread.pin}
  /\ mainThread' = MainIdle
  /\ UNCHANGED <<arrayVars, alertThread, raceHist, staticVars>>

\* pigpio's alert thread calls the handler registered for gpio (with the
\* PiHal instance as userdata); lines 178-184: the guard passes.
alertEnter(gpio, level) ==
  /\ alertThread.pc \in {"idle", "done"}
  /\ gpio \in alertFunc
  /\ ~HandlerGuard(gpio, "this")
  /\ alertThread' = [pc |-> "187", event |-> gpio, level |-> level, mode |-> 0,
                     tested |-> NULL, called |-> "none"]
  /\ UNCHANGED <<arrayVars, alertFunc, mainThread, raceHist, staticVars>>

\* Line 187: the read of interruptEnabled[event].
alert187 ==
  /\ alertThread.pc = "187"
  /\ alertThread' = [alertThread EXCEPT
                       !.pc = IF interruptEnabled[alertThread.event] THEN "188" ELSE "done"]
  /\ UNCHANGED <<arrayVars, alertFunc, mainThread, raceHist, staticVars>>

\* Line 188: the read of interruptModes[event] and the comparison.
alert188 ==
  /\ alertThread.pc = "188"
  /\ alertThread' = [alertThread EXCEPT
                       !.mode = interruptModes[alertThread.event],
                       !.pc = IF interruptModes[alertThread.event] = ToU32(alertThread.level)
                              THEN "189" ELSE "done"]
  /\ UNCHANGED <<arrayVars, alertFunc, mainThread, raceHist, staticVars>>

\* Line 189: the read of interruptCallbacks[event] and the test.
alert189 ==
  /\ alertThread.pc = "189"
  /\ alertThread' = [alertThread EXCEPT
                       !.tested = interruptCallbacks[alertThread.event],
                       !.pc = IF interruptCallbacks[alertThread.event] # NULL
                              THEN "190" ELSE "done"]
  /\ UNCHANGED <<arrayVars, alertFunc, mainThread, raceHist, staticVars>>

\* Line 190: the call. The source reads interruptCallbacks[event] again; a
\* build may also keep the pointer it tested at line 189 in a register.
alert190 ==
  /\ alertThread.pc = "190"
  /\ \E cb \in {interruptCallbacks[alertThread.event], alertThread.tested} :
       alertThread' = [alertThread EXCEPT !.called = cb, !.pc = "done"]
  /\ UNCHANGED <<arrayVars, alertFunc, mainThread, raceHist, staticVars>>

NextRace ==
  \/ \E n \in UsedPins, cb \in Callbacks, mode \in ModeArgs : attachEnter(n, cb, mode)
  \/ attach87
  \/ attach88
  \/ attach89
  \/ attach92
  \/ \E n \in UsedPins : detachEnter(n)
  \/ detach101
  \/ detach102
  \/ detach103
  \/ detach106
  \/ \E gpio \in alertFunc, level \in Levels : alertEnter(gpio, level)
  \/ alert187
  \/ alert188
  \/ alert189
  \/ alert190

SpecRace == InitWith({}, {Word}) /\ [][NextRace]_vars

\* ---------------------------------------------------------------- claims

PinOps == {"pinMode", "digitalWrite", "digitalRead", "pulseIn",
           "attachInterrupt", "detachInterrupt"}
HandlerOps == {"gpioAlert", "pigpioAlertHandler"}

\* C1: a call of pinMode, digitalWrite, digitalRead, pulseIn, attachInterrupt
\* or detachInterrupt whose pin is RADIOLIB_NC issues no library call, leaves
\* the three arrays and the SPI handle as they were and, for digitalRead and
\* pulseIn, returns 0.
C1_SentinelPinGuard ==
  [][(last'.op \in PinOps /\ last'.pin = RADIOLIB_NC) =>
       /\ last'.calls = <<>>
       /\ UNCHANGED adapterVars
       /\ last'.invoked = <<>>
       /\ (last'.op \in {"digitalRead", "pulseIn"} => last'.ret = 0)]_vars

C1_Witness ==
  /\ last.op = "digitalRead" /\ last.pin = RADIOLIB_NC /\ last.ret = 0
  /\ alertFunc # {}

\* C2 as stated: every operation that takes a pin number, and the alert
\* handler, called with a pin number greater than PI_MAX_USER_GPIO, issues no
\* library call and invokes no callback.
C2_OutOfRangeIgnored ==
  (last.op \in PinOps \cup HandlerOps /\ last.pin > PI_MAX_USER_GPIO) =>
     (last.calls = <<>> /\ last.invoked = <<>>)

\* C2 as amended: attachInterrupt, detachInterrupt and the alert handler,
\* called with a pin number greater than PI_MAX_USER_GPIO, issue no library
\* call, leave the three arrays as they were and invoke no callback; pinMode,
\* digitalWrite, digitalRead and pulseIn pass every pin number but RADIOLIB_NC
\* on to the library (they too leave the arrays alone and invoke no callback).
C2_OutOfRangeInterruptsIgnored ==
  [][(last'.op \in PinOps \cup HandlerOps /\ last'.pin > PI_MAX_USER_GPIO) =>
       /\ UNCHANGED arrayVars
       /\ last'.invoked = <<>>
       /\ last'.ret = 0 \/ last'.op \in {"digitalRead", "pulseIn"}
       /\ IF last'.op \in {"attachInterrupt", "detachInterrupt"} \cup HandlerOps
             \/ last'.pin = RADIOLIB_NC
          THEN last'.calls = <<>>
          ELSE /\ last'.calls # <<>>
               /\ last'.calls[1].a = last'.pin]_vars

C2_Witness ==
  /\ last.op = "attachInterrupt" /\ last.pin = PI_MAX_USER_GPIO + 1
  /\ last.calls = <<>>

\* What the dispatch condition of C3 gives for element e and the level.
Dispatched(e, level) ==
  IF interruptEnabled[e] /\ interruptModes[e] = level /\ interruptCallbacks[e] # NULL
  THEN <<interruptCallbacks[e]>>
  ELSE <<>>

\* C3: for an alert with non-null userdata and an event in 0..PI_MAX_USER_GPIO
\* the handler invokes interruptCallbacks[event], once, exactly when
\* interruptEnabled[event] holds, interruptModes[event] equals the level and
\* interruptCallbacks[event] is not NULL; in every other case it invokes no
\* callback. (The handler reads the arrays and leaves them as they were, so
\* the condition is stated on the state it returns in.)
C3_DispatchCondition ==
  last.op \in HandlerOps =>
    IF last.ud # NULL /\ last.pin \in Pins
    THEN last.invoked = Dispatched(last.pin, last.arg)
    ELSE last.invoked = <<>>

\* C4: every read or write of the three arrays uses an index in
\* 0..PI_MAX_USER_GPIO, whatever the arguments.
C4_IndexValid == \A i \in last.idx : i \in Pins

\* C5: an alert for pin p, delivered by the library or following an attach or
\* detach of p, invokes a callback only if the last attach/detach of p was
\* attachInterrupt(p, cb, mode) with cb not NULL and mode the alert's level,
\* and then it invokes cb; after attachInterrupt the element holds what was
\* attached and the alert function is registered; after detachInterrupt the
\* element is (false, 0, NULL) and the alert function is unregistered; attach
\* and detach of p leave the elements of every other pin as they were.
C5_Dispatch ==
  (/\ last.op \in HandlerOps /\ last.pin \in UsedPins /\ last.ud # NULL
   /\ (last.op = "gpioAlert" \/ lastReg[last.pin].kind # "none")
   /\ last.invoked # <<>>) =>
     LET r == lastReg[last.pin]
     IN r.kind = "attach" /\ r.cb # NULL /\ r.mode = last.arg /\ last.invoked = <<r.cb>>

C5_Entries ==
  \A p \in UsedPins :
    /\ lastReg[p].kind = "attach" =>
         /\ interruptEnabled[p] /\ interruptModes[p] = lastReg[p].mode
         /\ interruptCallbacks[p] = lastReg[p].cb
         /\ p \in alertFunc
    /\ lastReg[p].kind = "detach" =>
         /\ ~interruptEnabled[p] /\ interruptModes[p] = 0
         /\ interruptCallbacks[p] = NULL
         /\ p \notin alertFunc

C5_RegistrationLifecycle ==
  /\ [](C5_Dispatch /\ C5_Entries)
  /\ [][last'.op \in {"attachInterrupt", "detachInterrupt"} =>
          \A q \in Pins \ {last'.pin} :
            /\ interruptEnabled'[q] = interruptEnabled[q]
            /\ interruptModes'[q] = interruptModes[q]
            /\ interruptCallbacks'[q] = interruptCallbacks[q]]_vars

C5_Witness ==
  /\ last.op = "gpioAlert" /\ last.invoked # <<>>
  /\ \E q \in UsedPins : lastReg[q].kind = "detach"

\* C6: a callback attached with PI_RISING is invoked on an alert that reports
\* a change to high and not on one that reports a change to low; a callback
\* attached with PI_FALLING is invoked on a change to low and not on a change
\* to high; neither is invoked on a watchdog timeout.
C6_EdgeMapping ==
  (/\ last.op \in HandlerOps /\ last.pin \in UsedPins /\ last.ud # NULL
   /\ lastReg[last.pin].kind = "attach" /\ lastReg[last.pin].cb # NULL) =>
     LET r == lastReg[last.pin]
     IN /\ r.mode = PI_RISING =>
             last.invoked = IF last.arg = PI_HIGH THEN <<r.cb>> ELSE <<>>
        /\ r.mode = PI_FALLING =>
             last.invoked = IF last.arg = PI_LOW THEN <<r.cb>> ELSE <<>>

C6_Witness ==
  /\ last.op = "gpioAlert" /\ last.arg = PI_HIGH /\ last.invoked # <<>>
  /\ lastReg[last.pin].mode = PI_RISING

\* C7: init calls gpioInitialise first, then opens SPI, then sets ENABLE_PIN
\* to output and writes it high; term closes SPI first, then sets ENABLE_PIN
\* to output and writes it low, and calls gpioTerminate last. While init and
\* term alternate, the level last written to ENABLE_PIN is high after init
\* and low after term, and every init opens an SPI session.
C7_InitTermOrdering ==
  /\ last.op = "init" =>
       LET n == Len(last.calls)
       IN /\ n \in {3, 4}
          /\ last.calls[1].fn = "gpioInitialise"
          /\ n = 4 => last.calls[2].fn = "spiOpen"
          /\ last.calls[n - 1] = Call("gpioSetMode", ENABLE_PIN, PI_OUTPUT)
          /\ last.calls[n] = Call("gpioWrite", ENABLE_PIN, PI_HIGH)
          /\ enableLevel = PI_HIGH
  /\ last.op = "term" =>
       LET n == Len(last.calls)
       IN /\ n \in {3, 4}
          /\ n = 4 => last.calls[1].fn = "spiClose"
          /\ last.calls[n - 2] = Call("gpioSetMode", ENABLE_PIN, PI_OUTPUT)
          /\ last.calls[n - 1] = Call("gpioWrite", ENABLE_PIN, PI_LOW)
          /\ last.calls[n].fn = "gpioTerminate"
          /\ enableLevel = PI_LOW
          /\ spiHandle < 0
  /\ hist = "init" =>
       /\ last.op = "init" /\ enableLevel = PI_HIGH
       /\ Len(last.calls) = 4 /\ last.calls[2].fn = "spiOpen"
  /\ hist = "term" => (last.op = "term" /\ enableLevel = PI_LOW)

C7_Witness ==
  /\ hist = "init" /\ spiHandle >= 0
  /\ libInitialised /\ openHandles = {spiHandle}

\* The calls to fn among the library calls of the last operation.
CallsTo(calls, fn) == {i \in 1 .. Len(calls) : calls[i].fn = fn}

\* C8: at most one SPI session is open at any time, and it is the one
\* _spiHandle names; spiOpen is issued only with _spiHandle < 0 and spiClose
\* only with _spiHandle >= 0, on the open session, after which _spiHandle is
\* -1 (so no session is closed twice, and a second spiBegin or spiEnd does
\* nothing); spiTransfer leaves _spiHandle as it was.
C8_OneSession ==
  /\ Cardinality(openHandles) <= 1
  /\ spiHandle >= 0 => openHandles = {spiHandle}
  /\ spiHandle < 0 => openHandles = {}

C8_SpiSession ==
  /\ []C8_OneSession
  /\ [][/\ CallsTo(last'.calls, "spiOpen") # {} =>
             (spiHandle < 0 /\ Cardinality(CallsTo(last'.calls, "spiOpen")) = 1)
        /\ CallsTo(last'.calls, "spiClose") # {} =>
             /\ spiHandle >= 0 /\ spiHandle \in openHandles
             /\ \A i \in CallsTo(last'.calls, "spiClose") : last'.calls[i].a = spiHandle
             /\ Cardinality(CallsTo(last'.calls, "spiClose")) = 1
             /\ spiHandle' = -1
        /\ (last'.op = "spiBegin" /\ spiHandle >= 0) =>
             (last'.calls = <<>> /\ spiHandle' = spiHandle)
        /\ (last'.op = "spiBegin" /\ spiHandle < 0) => last'.calls # <<>>
        /\ (last'.op = "spiEnd" /\ spiHandle < 0) =>
             (last'.calls = <<>> /\ spiHandle' = spiHandle)
        /\ (last'.op = "spiEnd" /\ spiHandle >= 0) => last'.calls # <<>>
        /\ last'.op = "spiTransfer" => spiHandle' = spiHandle]_vars

C8_Witness ==
  /\ last.op = "spiBegin" /\ last.calls = <<>>
  /\ spiHandle >= 0 /\ openHandles = {spiHandle}

\* C9: whatever the interleaving of the handler with attachInterrupt and
\* detachInterrupt, the pointer the handler calls is not NULL, it is the one
\* it tested, and the mode it compared with the level was attached together
\* with that callback.
C9_HandlerRaceFree ==
  (alertThread.pc = "done" /\ alertThread.called # "none") =>
     /\ alertThread.called # NULL
     /\ alertThread.called = alertThread.tested
     /\ <<alertThread.event, alertThread.called, alertThread.mode>> \in regs

\* C10: a pulseIn on a connected pin returns 0 for a timeout only when the
\* pin has read equal to `state` for more than `timeout` microseconds since
\* the call began, and otherwise returns the microseconds from the start of
\* the call to the read that differed, also when the tick counter wraps
\* around during the call.
C10_PulseInResult ==
  (last.op = "pulseIn" /\ last.pin # RADIOLIB_NC) =>
     IF pulse.timedOut
     THEN last.ret = 0 /\ pulse.elapsed > pulse.timeout
     ELSE last.ret = pulse.elapsed
====
